---- MODULE Spec2Model ----
(***************************************************************************)
(* The ingestion and write pipeline of the mempool collector               *)
(* (collector/tx_processor.go): adapters feeding the bounded channel txC,  *)
(* the single consumer running processTx, and the housekeeper goroutine    *)
(* cleanupBackgroundTask.  The consumer and the housekeeper are modelled   *)
(* one shared access (one critical section, one file operation) per step,  *)
(* so that every interleaving of the two goroutines is explored.           *)
(*                                                                         *)
(* Time is in whole seconds (time.Time.Unix()); the clock `now` advances   *)
(* only when the housekeeper's time.Sleep(time.Minute) returns, i.e. the   *)
(* housekeeper ticks every TickSec seconds and one pass takes no time.     *)
(***************************************************************************)
EXTENDS Integers, Sequences, FiniteSets, TLC

\* ---------------------------------------------------------------- bounds
MaxArrivals == 2          \* number of TxIn values the adapters submit
MaxTicks == 2             \* number of housekeeper wake-ups
MaxQueued == 1            \* number of TxIn values the adapters leave waiting in txC

\* -------------------------------------------------------------- constants
TickSec == 60             \* time.Sleep(time.Minute)
txCacheTime == 1800       \* consts.go: txCacheTime = 30 * time.Minute, in seconds
bucketMinutes == 60       \* consts.go: bucketMinutes = 60
TxChanCap == 100          \* make(chan TxIn, 100)

BucketSec == bucketMinutes * 60

\* The wall clock when the processor starts: one tick before a bucket boundary,
\* so that the passes of the model straddle the boundary.
StartNow == 3 * BucketSec - TickSec

Hashes == {"0xaa", "0xbb"}
Sources == {"local", "blx"}
\* How long before its submission an adapter observed the transaction
\* (TxIn.T is set by the adapter and never by the processor).
Lags == {0, txCacheTime, BucketSec, 2 * BucketSec}

Nil == "nil"
\* The zero values of the consumer's locals outside processTx: no TxIn, no *OutFiles
NoTx == [hash |-> Nil, source |-> Nil, T |-> 0]
NoFiles == [FTxs |-> 0, FSourcelog |-> 0, FTrash |-> 0]
TrashTxAlreadyOnChain == "tx-already-on-chain"
KeyStatsAll == "all"
KeyStatsFirst == "first"
KeyStatsUnique == "unique"

VARIABLES
  env,            \* what the environment may do: the adapters' inputs, the I/O failures
  now,            \* wall clock, seconds
  submitted,      \* number of TxIn values submitted so far
  txC,            \* the channel: sequence of TxIn values in flight
  writeSourcelog, \* TxProcessor.writeSourcelog
  ethClient,      \* TRUE iff TxProcessor.ethClient # nil (checker configured)
  outFiles,       \* map bucketTS -> OutFiles (three handle ids)
  knownTxs,       \* map hash -> time
  txCnt,          \* atomic.Uint64
  srcCnt,         \* SourceMetrics.counts: kind -> source -> key -> count
  handles,        \* every os.File ever opened: sequence of [cat, bucket, open, closes]
  disk,           \* the files: <<category, bucketTS>> -> sequence of rows
  c_pc,           \* consumer: position in Start / processTx
  txIn,           \* consumer: the arrival being processed
  c_files,        \* consumer: the local outFiles pointer of processTx
  h_pc,           \* housekeeper: position in cleanupBackgroundTask
  locks,          \* who holds knownTxsLock, outFilesLock and the SourceMetrics lock, and how
  closed,         \* TRUE iff the channel txC has been closed
  hist            \* history: what the consumer and housekeeper did (not program state)

vars == <<env, locks, closed, now, submitted, txC, writeSourcelog, ethClient, outFiles, knownTxs, txCnt,
          srcCnt, handles, disk, c_pc, txIn, c_files, h_pc, hist>>

\* ---------------------------------------------------------- Go map helpers
EmptyMap == [x \in {} |-> 0]

Has(m, k) == k \in DOMAIN m

Put(m, k, v) == [x \in (DOMAIN m) \cup {k} |-> IF x = k THEN v ELSE m[x]]

\* A delete that removes nothing
DeleteNothing(m, ks) == m

Delete(m, ks) == [x \in (DOMAIN m) \ ks |-> m[x]]

MapLen(m) == Cardinality(DOMAIN m)

\* m[k] of a Go map: the zero value when k is missing
GetOr(m, k, zero) == IF k \in DOMAIN m THEN m[k] ELSE zero

\* ------------------------------------------------------------ SourceMetrics
NewMetricsCounter == EmptyMap

\* IncKey: counts[cntType][source][key] += 1, creating the inner maps on demand
IncKey(counts, cntType, source, key) ==
  LET c1 == IF Has(counts, cntType) THEN counts ELSE Put(counts, cntType, EmptyMap)
      c2 == IF Has(c1[cntType], source)
              THEN c1
              ELSE Put(c1, cntType, Put(c1[cntType], source, EmptyMap))
      old == GetOr(c2[cntType][source], key, 0)
  IN  Put(c2, cntType, Put(c2[cntType], source, Put(c2[cntType][source], key, old + 1)))

\* An Inc that loses the increment
IncLost(counts, cntType, source) == counts

\* Inc: the inner key is the counter type itself
Inc(counts, cntType, source) == IncKey(counts, cntType, source, cntType)

\* Get: counts[cntType]; a missing type yields the nil (empty) map
Get(counts, cntType) == GetOr(counts, cntType, EmptyMap)

\* A reset that keeps the "first" counters
ResetButFirst(counts) == Delete(counts, {"all", "unique"})

\* A reset that keeps every counter
ResetNothing(counts) == counts

\* A reset that clears the "all" counters only
ResetAllOnly(counts) == Delete(counts, {"all"})

\* Reset: counts = make(map...)
Reset(counts) == EmptyMap

\* ------------------------------------------------------------ files on disk
Categories == <<"transactions", "sourcelog", "trash">>

\* Go's integer division: the quotient is truncated toward zero
GoDiv(a, b) == IF a >= 0 THEN a \div b ELSE -((-a) \div b)

\* The bucket of a unix timestamp: bucketTS := timestamp / sec * sec
BucketTS(timestamp) == GoDiv(timestamp, BucketSec) * BucketSec

UnixMilli(t) == t * 1000

\* common.TxToRLPString: the canonical raw form of the transaction
TxToRLPString(hash) == <<"rlp", hash>>

\* A sourcelog row with the hash and source columns swapped
SourcelogRowSwapped(t) == <<UnixMilli(t.T), t.source, t.hash>>

\* "%d,%s,%s\n", txIn.T.UnixMilli(), txHash.Hex(), txIn.Source
SourcelogRow(t) == <<UnixMilli(t.T), t.hash, t.source>>

TrashRow(t, block) == <<UnixMilli(t.T), t.hash, t.source, TrashTxAlreadyOnChain, block>>

TxsRow(t) == <<UnixMilli(t.T), t.hash, TxToRLPString(t.hash)>>

Blocks == {18000000}

\* os.OpenFile(fn, O_APPEND|O_CREATE|O_WRONLY): a new open handle; the file exists afterwards
OpenFile(hs, cat, bucket) == Append(hs, [cat |-> cat, bucket |-> bucket, open |-> TRUE, closes |-> 0])

Created(d, cat, bucket) == IF Has(d, <<cat, bucket>>) THEN d ELSE Put(d, <<cat, bucket>>, <<>>)

\* (*os.File).Close: closes an open handle; on a closed one it only returns an error
Close(hs, id) == [hs EXCEPT ![id] = [@ EXCEPT !.open = FALSE, !.closes = @ + 1]]

\* fmt.Fprintf(f, row): appends the row unless the handle is closed or the write fails
WriteOk(hs, id, ioOk) == hs[id].open /\ ioOk

Fprintf(d, hs, id, row) ==
  LET path == <<hs[id].cat, hs[id].bucket>> IN [d EXCEPT ![path] = Append(@, row)]

\* ------------------------------------------------------------------ history
\* One entry per dequeued arrival: what processTx did with it.
\* answer: what the inclusion checker answered ("none": not asked); counted: whether
\* the arrival was counted as a first observation, "now" (since the last Reset of the
\* counters) or "before" it
NewEntry(t) == [tx |-> t, srclog |-> FALSE, included |-> FALSE, trashed |-> FALSE,
                persisted |-> FALSE, remembered |-> FALSE, failed |-> FALSE,
                answer |-> "none", counted |-> "no"]

Mark(h, field) ==
  LET n == Len(h.arrivals) IN
  [h EXCEPT !.arrivals = [@ EXCEPT ![n] = [@ EXCEPT ![field] = TRUE]]]

Note(h, field, v) ==
  LET n == Len(h.arrivals) IN
  [h EXCEPT !.arrivals = [@ EXCEPT ![n] = [@ EXCEPT ![field] = v]]]

\* The answers of p.ethClient.TransactionReceipt: a receipt, the error "not found",
\* another error, neither a receipt nor an error
ReceiptResults == {"included", "not found", "error", "nil"}

\* The call is made with context.Background(): it may also never return
NoAnswer == "no answer"

\* --------------------------------------------------------------------- Init
\* What the environment may do in a behaviour: the values the adapters put in a TxIn
\* and which operations of the operating system and of the encoder may fail.
Env(hashes, sources, lags, failOpen, failWrite, failEnc, receipts) ==
  [hashes |-> hashes, sources |-> sources, lags |-> lags,
   failOpen |-> failOpen, failWrite |-> failWrite, failEnc |-> failEnc,
   receipts |-> receipts]

\* The outcomes of an operation that the environment may or may not fail
Outcomes(canFail) == IF canFail THEN BOOLEAN ELSE {TRUE}

\* The state NewTxProcessor and Start leave, for the options (WriteSourcelog, CheckNodeURI)
\* backlog: what the adapters sent before the consumer's first receive
InitFrom(e, sourcelogOpts, checkOpts, backlog) ==
  /\ env = e
  /\ now = StartNow
  /\ submitted = Len(backlog)
  /\ txC = backlog
  /\ writeSourcelog \in sourcelogOpts
  /\ ethClient \in checkOpts
  /\ outFiles = EmptyMap
  /\ knownTxs = EmptyMap
  /\ txCnt = 0
  /\ srcCnt = NewMetricsCounter
  /\ handles = <<>>
  /\ disk = EmptyMap
  /\ c_pc = "recv"
  /\ txIn = NoTx
  /\ c_files = NoFiles
  /\ h_pc = "sleep"
  /\ locks = {}
  /\ closed = FALSE
  /\ hist = [arrivals |-> <<>>, evicted |-> [h \in e.hashes |-> 0], survived |-> {},
             failedOpens |-> {}, sent |-> backlog, insertedAt |-> [h \in e.hashes |-> -1],
             reported |-> [all |-> [s \in e.sources |-> 0], tx |-> 0],
             inHand |-> [all |-> Nil, unique |-> Nil]]

InitWith(e, sourcelogOpts, checkOpts) == InitFrom(e, sourcelogOpts, checkOpts, <<>>)

Init ==
  InitWith(Env(Hashes, Sources, Lags, TRUE, TRUE, TRUE, ReceiptResults \cup {NoAnswer}),
           BOOLEAN, BOOLEAN)

\* ----------------------------------------------------------------- adapters
\* An adapter sends one TxIn on txC; the send blocks while the channel is full.
SubmitWithin(queued, total) ==
  /\ ~closed
  /\ submitted < total
  /\ Len(txC) < TxChanCap
  /\ Len(txC) < queued
  /\ \E h \in env.hashes, s \in env.sources, lag \in env.lags :
       LET t == [hash |-> h, source |-> s, T |-> now - lag] IN
       /\ txC' = Append(txC, t)
       /\ hist' = [hist EXCEPT !.sent = Append(@, t)]
  /\ submitted' = submitted + 1
  /\ UNCHANGED <<env, locks, closed, now, writeSourcelog, ethClient, outFiles, knownTxs, txCnt, srcCnt,
                 handles, disk, c_pc, txIn, c_files, h_pc>>

Submit == SubmitWithin(MaxQueued, MaxArrivals)

\* ----------------------------------------------------------------- consumer
\* processTx returns: the consumer is back at the channel receive of Start
Return == /\ c_pc' = "recv"
          /\ txIn' = NoTx
          /\ c_files' = NoFiles

\* A receive that leaves the value in the channel
DequeuedNothing(q) == q

\* The channel after a receive
Dequeued(q) == Tail(q)

\* Start: for txIn := range p.txC
Recv ==
  /\ c_pc = "recv"
  /\ txC # <<>>
  /\ c_pc' = "incAll"
  /\ txIn' = Head(txC)
  /\ txC' = Dequeued(txC)
  /\ hist' = [hist EXCEPT !.arrivals = Append(@, NewEntry(Head(txC)))]
  /\ UNCHANGED <<env, locks, closed, now, submitted, writeSourcelog, ethClient, outFiles, knownTxs, txCnt,
                 srcCnt, handles, disk, c_files, h_pc>>

\* p.srcCnt.Inc("all", txIn.Source)
IncAll ==
  /\ c_pc = "incAll"
  /\ srcCnt' = Inc(srcCnt, KeyStatsAll, txIn.source)
  /\ c_pc' = "incUnique"
  /\ UNCHANGED <<env, locks, closed, now, submitted, txC, writeSourcelog, ethClient, outFiles, knownTxs, txCnt,
                 handles, disk, txIn, c_files, h_pc, hist>>

\* p.srcCnt.IncKey("unique", txIn.Source, hash)
IncUnique ==
  /\ c_pc = "incUnique"
  /\ srcCnt' = IncKey(srcCnt, KeyStatsUnique, txIn.source, txIn.hash)
  /\ c_pc' = "getFiles"
  /\ UNCHANGED <<env, locks, closed, now, submitted, txC, writeSourcelog, ethClient, outFiles, knownTxs, txCnt,
                 handles, disk, txIn, c_files, h_pc, hist>>

\* getOutputCSVFiles: the probe of p.outFiles[bucketTS] under RLock
GetFilesProbe ==
  /\ c_pc = "getFiles"
  /\ LET b == BucketTS(txIn.T) IN
       IF Has(outFiles, b)
         THEN /\ c_pc' = "sourcelog"
              /\ c_files' = outFiles[b]
         ELSE /\ c_files' = c_files
              /\ c_pc' = "openFiles"
  /\ UNCHANGED <<env, locks, closed, now, submitted, txC, writeSourcelog, ethClient, outFiles, knownTxs, txCnt,
                 srcCnt, handles, disk, txIn, h_pc, hist>>

\* The handles and files after the opens of getOutputCSVFiles, when step `fp` of
\* (mkdir, open) x (transactions, sourcelog, trash) is the first to fail (0: none fails):
\* category i is opened iff no step up to its open fails.
Opened(fp) == IF fp = 0 THEN 3 ELSE (fp - 1) \div 2

RECURSIVE OpenN(_, _, _)
OpenN(hs, n, bucket) ==
  IF n = 0 THEN hs ELSE OpenFile(OpenN(hs, n - 1, bucket), Categories[n], bucket)

RECURSIVE CreatedN(_, _, _)
CreatedN(d, n, bucket) ==
  IF n = 0 THEN d ELSE Created(CreatedN(d, n - 1, bucket), Categories[n], bucket)

\* The error return of getOutputCSVFiles: return nil, false, err
OpenFailed(opened) ==
  /\ hist' = [Mark(hist, "failed") EXCEPT !.failedOpens = @ \cup opened]
  /\ Return

\* getOutputCSVFiles: MkdirAll and OpenFile for the three categories
OpenFiles ==
  /\ c_pc = "openFiles"
  /\ \E fp \in (IF env.failOpen THEN 0..6 ELSE {0}) :
       LET b == BucketTS(txIn.T)
           n == Len(handles)
           k == Opened(fp)
       IN  /\ handles' = OpenN(handles, k, b)
           /\ disk' = CreatedN(disk, k, b)
           /\ IF fp = 0
                THEN /\ c_pc' = "storeFiles"
                     /\ c_files' = [FTxs |-> n + 1, FSourcelog |-> n + 2, FTrash |-> n + 3]
                     /\ UNCHANGED <<txIn, hist>>
                ELSE OpenFailed((n + 1)..(n + k))
  /\ UNCHANGED <<env, locks, closed, now, submitted, txC, writeSourcelog, ethClient, outFiles, knownTxs, txCnt,
                 srcCnt, h_pc>>

\* getOutputCSVFiles: p.outFiles[bucketTS] = outFiles under Lock
StoreFiles ==
  /\ c_pc = "storeFiles"
  /\ outFiles' = Put(outFiles, BucketTS(txIn.T), c_files)
  /\ c_pc' = "sourcelog"
  /\ UNCHANGED <<env, locks, closed, now, submitted, txC, writeSourcelog, ethClient, knownTxs, txCnt, srcCnt,
                 handles, disk, txIn, c_files, h_pc, hist>>

\* if p.writeSourcelog { Fprintf(outFiles.FSourcelog, ...) }
Sourcelog ==
  /\ c_pc = "sourcelog"
  /\ IF writeSourcelog
       THEN \E ioOk \in Outcomes(env.failWrite) :
              IF WriteOk(handles, c_files.FSourcelog, ioOk)
                THEN /\ disk' = Fprintf(disk, handles, c_files.FSourcelog, SourcelogRow(txIn))
                     /\ hist' = Mark(hist, "srclog")
                     /\ c_pc' = "probeKnown"
                     /\ UNCHANGED <<txIn, c_files>>
                ELSE /\ hist' = Mark(hist, "failed")
                     /\ Return
                     /\ UNCHANGED disk
       ELSE /\ c_pc' = "probeKnown"
            /\ UNCHANGED <<disk, hist, txIn, c_files>>
  /\ UNCHANGED <<env, locks, closed, now, submitted, txC, writeSourcelog, ethClient, outFiles, knownTxs, txCnt,
                 srcCnt, handles, h_pc>>

\* A processTx that never finds the hash in knownTxs
AlreadyProcessedNever(known, hash) == FALSE

\* _, ok := p.knownTxs[txHash]
AlreadyProcessed(known, hash) == Has(known, hash)

\* the probe of p.knownTxs under RLock; if ok { return }
ProbeKnown ==
  /\ c_pc = "probeKnown"
  /\ IF AlreadyProcessed(knownTxs, txIn.hash)
       THEN Return
       ELSE /\ c_pc' = IF ethClient THEN "check" ELSE "txCntInc"
            /\ UNCHANGED <<txIn, c_files>>
  /\ UNCHANGED <<env, locks, closed, now, submitted, txC, writeSourcelog, ethClient, outFiles, knownTxs, txCnt,
                 srcCnt, handles, disk, h_pc, hist>>

\* A trash write that is not followed by the return: the arrival goes on to the txs write
TrashAndContinue(block, ioOk) ==
  /\ IF WriteOk(handles, c_files.FTrash, ioOk)
       THEN /\ disk' = Fprintf(disk, handles, c_files.FTrash, TrashRow(txIn, block))
            /\ hist' = Mark(Mark(Note(hist, "answer", "included"), "included"), "trashed")
       ELSE /\ disk' = disk
            /\ hist' = Mark(Mark(Note(hist, "answer", "included"), "included"), "failed")
  /\ c_pc' = "txCntInc"
  /\ UNCHANGED <<txIn, c_files, knownTxs>>

\* A trash write that also marks the hash as known
TrashAndRemember(block, ioOk) ==
  /\ IF WriteOk(handles, c_files.FTrash, ioOk)
       THEN /\ disk' = Fprintf(disk, handles, c_files.FTrash, TrashRow(txIn, block))
            /\ hist' = Mark(Mark(Note(hist, "answer", "included"), "included"), "trashed")
       ELSE /\ disk' = disk
            /\ hist' = Mark(Mark(Note(hist, "answer", "included"), "included"), "failed")
  /\ knownTxs' = Put(knownTxs, txIn.hash, txIn.T)
  /\ Return

\* else if receipt != nil { Fprintf(outFiles.FTrash, ...); if err != nil { log }; return }
TrashAndReturn(block, ioOk) ==
  /\ IF WriteOk(handles, c_files.FTrash, ioOk)
       THEN /\ disk' = Fprintf(disk, handles, c_files.FTrash, TrashRow(txIn, block))
            /\ hist' = Mark(Mark(Note(hist, "answer", "included"), "included"), "trashed")
       ELSE /\ disk' = disk
            /\ hist' = Mark(Mark(Note(hist, "answer", "included"), "included"), "failed")
  /\ knownTxs' = knownTxs
  /\ Return

\* An error other than "not found" that is logged and followed by a return
GoOnUnlessError(res) ==
  /\ hist' = Note(hist, "answer", res)
  /\ IF res = "error"
       THEN Return
       ELSE /\ c_pc' = "txCntInc"
            /\ UNCHANGED <<txIn, c_files>>
  /\ UNCHANGED <<disk, knownTxs>>

\* if err != nil { if err.Error() == "not found" { } else { log.Errorw(...) } }, and a
\* nil receipt: nothing is written and processTx goes on after the if
GoOn(res) ==
  /\ hist' = Note(hist, "answer", res)
  /\ c_pc' = "txCntInc"
  /\ UNCHANGED <<disk, txIn, c_files, knownTxs>>

\* TransactionReceipt(context.Background(), txHash) does not return
Wait ==
  /\ hist' = Note(hist, "answer", NoAnswer)
  /\ c_pc' = "rpcWait"
  /\ UNCHANGED <<disk, txIn, c_files, knownTxs>>

\* if p.ethClient != nil { receipt, err := p.ethClient.TransactionReceipt(...) ... }
Check ==
  /\ c_pc = "check"
  /\ \E res \in env.receipts :
       CASE res = "included" ->
              \E block \in Blocks, ioOk \in Outcomes(env.failWrite) : TrashAndReturn(block, ioOk)
         [] res = NoAnswer -> Wait
         [] OTHER -> GoOn(res)
  /\ UNCHANGED <<env, locks, closed, now, submitted, txC, writeSourcelog, ethClient, outFiles, txCnt,
                 srcCnt, handles, h_pc>>

\* p.txCnt.Inc()
TxCntInc ==
  /\ c_pc = "txCntInc"
  /\ txCnt' = txCnt + 1
  /\ c_pc' = "incFirst"
  /\ UNCHANGED <<env, locks, closed, now, submitted, txC, writeSourcelog, ethClient, outFiles, knownTxs, srcCnt,
                 handles, disk, txIn, c_files, h_pc, hist>>

\* p.srcCnt.Inc("first", txIn.Source)
IncFirst ==
  /\ c_pc = "incFirst"
  /\ srcCnt' = Inc(srcCnt, KeyStatsFirst, txIn.source)
  /\ c_pc' = "writeTx"
  /\ hist' = Note(hist, "counted", "now")
  /\ UNCHANGED <<env, locks, closed, now, submitted, txC, writeSourcelog, ethClient, outFiles, knownTxs, txCnt,
                 handles, disk, txIn, c_files, h_pc>>

\* A failed encoding or txs write that is logged but not followed by the return
WriteFailedNoReturn ==
  /\ hist' = Mark(hist, "failed")
  /\ c_pc' = "remember"
  /\ UNCHANGED <<txIn, c_files, disk>>

\* if err != nil { log.Errorw(...); return } after TxToRLPString and after Fprintf
WriteFailed ==
  /\ hist' = Mark(hist, "failed")
  /\ Return
  /\ UNCHANGED disk

\* rlpHex, err := common.TxToRLPString(txIn.Tx); Fprintf(outFiles.FTxs, ...)
WriteTx ==
  /\ c_pc = "writeTx"
  /\ \E encOk \in Outcomes(env.failEnc), ioOk \in Outcomes(env.failWrite) :
       IF encOk /\ WriteOk(handles, c_files.FTxs, ioOk)
         THEN /\ disk' = Fprintf(disk, handles, c_files.FTxs, TxsRow(txIn))
              /\ hist' = Mark(hist, "persisted")
              /\ c_pc' = "remember"
              /\ UNCHANGED <<txIn, c_files>>
         ELSE WriteFailed
  /\ UNCHANGED <<env, locks, closed, now, submitted, txC, writeSourcelog, ethClient, outFiles, knownTxs, txCnt,
                 srcCnt, handles, h_pc>>

\* p.knownTxs[txHash] = txIn.T under Lock
Remember ==
  /\ c_pc = "remember"
  /\ knownTxs' = Put(knownTxs, txIn.hash, txIn.T)
  /\ hist' = [Mark(hist, "remembered") EXCEPT !.insertedAt[txIn.hash] = now]
  /\ Return
  /\ UNCHANGED <<env, locks, closed, now, submitted, txC, writeSourcelog, ethClient, outFiles, txCnt, srcCnt,
                 handles, disk, h_pc>>

Consumer == \/ Recv \/ IncAll \/ IncUnique \/ GetFilesProbe \/ OpenFiles \/ StoreFiles
            \/ Sourcelog \/ ProbeKnown \/ Check \/ TxCntInc \/ IncFirst \/ WriteTx
            \/ Remember

\* -------------------------------------------------------------- housekeeper
Ticks == (now - StartNow) \div TickSec

\* time.Sleep(time.Minute) returns
Tick ==
  /\ h_pc = "sleep"
  /\ Ticks < MaxTicks
  /\ now' = now + TickSec
  /\ h_pc' = "evictKnown"
  /\ UNCHANGED <<env, locks, closed, submitted, txC, writeSourcelog, ethClient, outFiles, knownTxs, txCnt,
                 srcCnt, handles, disk, c_pc, txIn, c_files, hist>>

\* An expiry test that is one tick late
ExpiredLate(v) == now - v > txCacheTime + TickSec

\* time.Since(v) > txCacheTime
Expired(v) == now - v > txCacheTime

\* cachedBefore := len(p.knownTxs) (only logged), then under Lock:
\* for k, v := range p.knownTxs { if time.Since(v) > txCacheTime { delete(p.knownTxs, k) } }
EvictKnown ==
  /\ h_pc = "evictKnown"
  /\ LET old == {k \in DOMAIN knownTxs : Expired(knownTxs[k])} IN
       /\ knownTxs' = Delete(knownTxs, old)
       /\ hist' = [hist EXCEPT !.evicted = [h \in DOMAIN @ |-> IF h \in old THEN @[h] + 1 ELSE @[h]],
                               !.survived = (DOMAIN knownTxs) \ old]
  /\ h_pc' = "evictFiles"
  /\ UNCHANGED <<env, locks, closed, now, submitted, txC, writeSourcelog, ethClient, outFiles, txCnt, srcCnt,
                 handles, disk, c_pc, txIn, c_files>>

\* usageSec := bucketMinutes * 60 * 2
usageSec == bucketMinutes * 60 * 2

\* time.Now().UTC().Unix()-timestamp > int64(usageSec)
Stale(timestamp) == now - timestamp > usageSec

\* The three handles of an OutFiles
HandlesOf(of) == {of.FTxs, of.FSourcelog, of.FTrash}

\* An eviction that forgets to close the trash handle
CloseFilesNoTrash(hs, of) == Close(Close(hs, of.FTxs), of.FSourcelog)

\* _ = outFiles.FTxs.Close(); _ = outFiles.FSourcelog.Close(); _ = outFiles.FTrash.Close()
CloseFiles(hs, of) == Close(Close(Close(hs, of.FTxs), of.FSourcelog), of.FTrash)

RECURSIVE CloseBuckets(_, _, _)
CloseBuckets(hs, m, keys) ==
  IF keys = {} THEN hs
  ELSE LET k == CHOOSE x \in keys : TRUE IN
       CloseBuckets(CloseFiles(hs, m[k]), m, keys \ {k})

\* filesBefore := len(p.outFiles) (only logged), then under Lock:
\* for timestamp, outFiles := range p.outFiles { if stale { delete; close x 3 } }
EvictFiles ==
  /\ h_pc = "evictFiles"
  /\ LET old == {ts \in DOMAIN outFiles : Stale(ts)} IN
       /\ outFiles' = Delete(outFiles, old)
       /\ handles' = CloseBuckets(handles, outFiles, old)
  /\ h_pc' = "logStats"
  /\ UNCHANGED <<env, locks, closed, now, submitted, txC, writeSourcelog, ethClient, knownTxs, txCnt, srcCnt,
                 disk, c_pc, txIn, c_files, hist>>

\* runtime.ReadMemStats, p.log.Infow("stats", ...), the loops over p.srcCnt.Get("all"),
\* Get("first"), Get("unique") and the three source_stats records: they only read, and
\* what they read is only logged
LogStats ==
  /\ h_pc = "logStats"
  /\ h_pc' = "reset"
  /\ UNCHANGED <<env, locks, closed, now, submitted, txC, writeSourcelog, ethClient, outFiles, knownTxs, txCnt,
                 srcCnt, handles, disk, c_pc, txIn, c_files, hist>>

\* The positions of processTx after Inc("all") and before Inc("first")
AfterIncAll == {"incUnique", "getFiles", "openFiles", "storeFiles", "sourcelog", "probeKnown",
                "check", "rpcWait", "txCntInc", "incFirst"}

\* The source of the arrival that the consumer has in hand and has already counted in
\* `all`, and in `unique`, but not yet in `first` (Nil: none)
InHand ==
  [all |-> IF c_pc \in AfterIncAll THEN txIn.source ELSE Nil,
   unique |-> IF c_pc \in AfterIncAll \ {"incUnique"} THEN txIn.source ELSE Nil]

\* p.srcCnt.Reset(); hist.inHand: the arrival in hand at the Reset
ResetCounters ==
  /\ h_pc = "reset"
  /\ srcCnt' = Reset(srcCnt)
  /\ h_pc' = "storeTxCnt"
  /\ hist' = [hist EXCEPT !.arrivals =
                 [i \in DOMAIN @ |-> IF @[i].counted = "now"
                                       THEN [@[i] EXCEPT !.counted = "before"]
                                       ELSE @[i]],
                            !.inHand = InHand]
  /\ UNCHANGED <<env, locks, closed, now, submitted, txC, writeSourcelog, ethClient, outFiles, knownTxs, txCnt,
                 handles, disk, c_pc, txIn, c_files>>

\* p.txCnt.Store(0)
StoreTxCnt ==
  /\ h_pc = "storeTxCnt"
  /\ txCnt' = 0
  /\ h_pc' = "sleep"
  /\ UNCHANGED <<env, locks, closed, now, submitted, txC, writeSourcelog, ethClient, outFiles, knownTxs, srcCnt,
                 handles, disk, c_pc, txIn, c_files, hist>>

Housekeeper == \/ Tick \/ EvictKnown \/ EvictFiles \/ LogStats \/ ResetCounters \/ StoreTxCnt

Next == Submit \/ Consumer \/ Housekeeper

\* The whole input space with every failure
Spec == Init /\ [][Next]_vars

\* Dedup and routing: both hashes, timestamps now and txCacheTime old, failing writes
\* and encodings, the checker configured or not
InitRouting ==
  InitWith(Env(Hashes, {"local"}, {0, txCacheTime}, FALSE, TRUE, TRUE, {"included", "not found"}), {FALSE}, BOOLEAN)

SpecRouting == InitRouting /\ [][Next]_vars

\* I/O failures: every open, write and encoding may fail, and a timestamp two buckets
\* late has its handles closed by the next pass; sourcelog on
InitIO ==
  InitWith(Env({"0xaa"}, Sources, {0, 2 * BucketSec}, TRUE, TRUE, TRUE, {"included", "not found"}), {TRUE}, BOOLEAN)

SpecIO == InitIO /\ [][Next]_vars

\* File handles: one hash, timestamps in the current bucket and one and two buckets
\* late, failing opens
InitFiles ==
  InitWith(Env({"0xaa"}, {"local"}, {0, BucketSec, 2 * BucketSec}, TRUE, FALSE, FALSE, {"included", "not found"}),
           BOOLEAN, {TRUE})

SpecFiles == InitFiles /\ [][Next]_vars

\* The known-tx cache: one hash, timestamps now, txCacheTime old and one bucket old
InitTTL ==
  InitWith(Env({"0xaa"}, {"local"}, {0, txCacheTime, BucketSec}, FALSE, FALSE, FALSE, {"included", "not found"}),
           {FALSE}, BOOLEAN)

SpecTTL == InitTTL /\ [][Next]_vars

\* Counters: both hashes from both sources, no failure
InitCounters ==
  InitWith(Env(Hashes, Sources, {0}, FALSE, FALSE, FALSE, {"included", "not found"}), {TRUE}, {TRUE})

SpecCounters == InitCounters /\ [][Next]_vars

\* ------------------------------------------------------- what is on the disk
\* The rows of every file of a category, as <<path, index>>
RowIds(cat) ==
  UNION {{<<p, i>> : i \in 1..Len(disk[p])} : p \in {q \in DOMAIN disk : q[1] = cat}}

\* The number of rows of a category that carry the hash
Rows(cat, h) == Cardinality({r \in RowIds(cat) : disk[r[1]][r[2]][2] = h})

\* The dequeued arrivals of a hash, as indexes of the history
ArrivalsOf(h) == {i \in 1..Len(hist.arrivals) : hist.arrivals[i].tx.hash = h}

Idle == c_pc = "recv"

\* --------------------------------------------------------------------- C1
\* C1 as stated: once the consumer is idle, every hash that arrived, that no inclusion
\* check reported on chain and none of whose arrivals hit a failure has exactly one
\* row in the txs files.
C1_ExactlyOneRowPerHash ==
  Idle =>
    \A h \in env.hashes :
      (/\ ArrivalsOf(h) # {}
       /\ \A i \in ArrivalsOf(h) : ~hist.arrivals[i].included /\ ~hist.arrivals[i].failed)
      => Rows("transactions", h) = 1

\* C1 amended: the txs files hold one row of a hash per insertion of the hash into
\* knownTxs: one per eviction of the hash by the housekeeper, one if the hash is in
\* knownTxs now, one if the consumer has written the row and is about to insert it.
C1_OneRowPerInsertion ==
  \A h \in env.hashes :
    Rows("transactions", h) =
      hist.evicted[h]
      + (IF Has(knownTxs, h) THEN 1 ELSE 0)
      + (IF c_pc = "remember" /\ txIn.hash = h THEN 1 ELSE 0)

\* C1 witness: a hash has two rows in txs: it was evicted and delivered again.
C1_Witness ==
  \E h \in env.hashes :
    /\ Rows("transactions", h) = 2
    /\ hist.evicted[h] = 1
    /\ Has(knownTxs, h)

\* --------------------------------------------------------------------- C2
\* The sourcelog file of a bucket
SourcelogFile(b) == GetOr(disk, <<"sourcelog", b>>, <<>>)

\* The buckets of the dequeued arrivals and of the files
Buckets ==
  {BucketTS(hist.arrivals[i].tx.T) : i \in 1..Len(hist.arrivals)} \cup {p[2] : p \in DOMAIN disk}

\* The rows <ts_ms>,<hash>,<source> of the first n dequeued arrivals that belong to
\* bucket b, in dequeue order; with onlyWritten, of those whose write succeeded
RECURSIVE ArrivalLog(_, _, _)
ArrivalLog(n, b, onlyWritten) ==
  IF n = 0 THEN <<>>
  ELSE LET a == hist.arrivals[n]
           rest == ArrivalLog(n - 1, b, onlyWritten)
       IN  IF BucketTS(a.tx.T) = b /\ (~onlyWritten \/ a.srclog)
             THEN Append(rest, <<a.tx.T * 1000, a.tx.hash, a.tx.source>>)
             ELSE rest

C3_TrashExactlyOnce ==
  (Idle /\ ethClient) =>
    \A h \in env.hashes :
      (/\ \E i \in ArrivalsOf(h) : hist.arrivals[i].included
       /\ \A i \in ArrivalsOf(h) : ~hist.arrivals[i].failed)
      => (Rows("trash", h) = 1 /\ Rows("transactions", h) = 0)

\* C3 amended: a hash has one trash row per arrival that the checker reported included
\* and whose trash write succeeded (not one row in all); such an arrival never adds a
\* txs row nor enters knownTxs, so a hash every arrival of which was reported included
\* has no row in txs.
C3_TrashOncePerIncludedArrival ==
  \A h \in env.hashes :
    /\ Rows("trash", h) = Cardinality({i \in ArrivalsOf(h) : hist.arrivals[i].trashed})
    /\ \A i \in ArrivalsOf(h) :
         /\ hist.arrivals[i].trashed => hist.arrivals[i].included
         /\ hist.arrivals[i].included =>
              ~hist.arrivals[i].persisted /\ ~hist.arrivals[i].remembered
    /\ (\A i \in ArrivalsOf(h) : hist.arrivals[i].included) => Rows("transactions", h) = 0
    /\ Rows("transactions", h) = Cardinality({i \in ArrivalsOf(h) : hist.arrivals[i].persisted})

\* C3 witness: the same hash was reported included twice and has two rows in trash.
C3_Witness ==
  \E h \in env.hashes :
    /\ Rows("trash", h) = 2
    /\ Rows("transactions", h) = 0
    /\ ~Has(knownTxs, h)

\* --------------------------------------------------------------------- C4
\* The txs file of a bucket
TxsFile(b) == GetOr(disk, <<"transactions", b>>, <<>>)

\* The row <ts_ms>,<hash>,<raw> is in the txs file of the bucket of t
HasTxsRow(h, t) ==
  \E i \in 1..Len(TxsFile(BucketTS(t))) :
    TxsFile(BucketTS(t))[i] = <<t * 1000, h, <<"rlp", h>>>>

\* C4: every entry of knownTxs is the hash and timestamp of an arrival whose txs row is
\* on disk; the consumer is about to insert only after it appended that row; an arrival
\* that hit a failure (open, sourcelog write, encoding, txs write) inserted nothing.
C4_KnownOnlyAfterTxsWrite ==
  /\ \A h \in DOMAIN knownTxs : HasTxsRow(h, knownTxs[h])
  /\ c_pc = "remember" =>
       /\ HasTxsRow(txIn.hash, txIn.T)
       /\ ~hist.arrivals[Len(hist.arrivals)].failed
  /\ \A i \in 1..Len(hist.arrivals) :
       hist.arrivals[i].failed => ~hist.arrivals[i].remembered

\* C4 witness: an arrival of a hash hit a failure and left knownTxs without the hash;
\* the next arrival of the same hash was persisted and remembered.
C4_Witness ==
  /\ Len(hist.arrivals) = 2
  /\ hist.arrivals[1].failed
  /\ hist.arrivals[2].tx.hash = hist.arrivals[1].tx.hash
  /\ hist.arrivals[2].persisted
  /\ hist.arrivals[2].remembered
  /\ Has(knownTxs, hist.arrivals[2].tx.hash)

\* --------------------------------------------------------------------- C5
\* The handles the outFiles map holds
HandlesInMap == UNION {HandlesOf(outFiles[ts]) : ts \in DOMAIN outFiles}

\* C5 as stated: once the consumer is idle, a handle in the map is open and was never
\* closed, and a handle that is not in the map is closed and was closed exactly once.
C5_HandleLifecycle ==
  Idle =>
    \A id \in 1..Len(handles) :
      IF id \in HandlesInMap
        THEN handles[id].open /\ handles[id].closes = 0
        ELSE ~handles[id].open /\ handles[id].closes = 1

\* --------------------------------------------------------------------- C6
\* C6 as stated: after a call of getOutputCSVFiles that returned an error, nothing of it
\* is in the map and every handle it had opened is closed.
C6_FailedOpenClosesHandles ==
  \A id \in hist.failedOpens : id \notin HandlesInMap /\ ~handles[id].open

\* --------------------------------------------------------------------- C7
\* C7: the eviction step of a housekeeper pass removes from the map every bucket whose
\* key is more than 2 * BUCKET_SECONDS behind the clock and leaves its three handles closed.
C7_StaleBucketsEvicted ==
  [][(h_pc = "evictFiles" /\ h_pc' # "evictFiles") =>
       \A ts \in DOMAIN outFiles :
         now - ts > 2 * bucketMinutes * 60 =>
           /\ ts \notin DOMAIN outFiles'
           /\ ~handles'[outFiles[ts].FTxs].open
           /\ ~handles'[outFiles[ts].FSourcelog].open
           /\ ~handles'[outFiles[ts].FTrash].open]_vars

\* C7 witness: a pass has just evicted a bucket, whose handles are closed, and kept the
\* bucket that is exactly 2 * BUCKET_SECONDS old.
C7_Witness ==
  /\ h_pc = "logStats"
  /\ \E id \in 1..Len(handles) :
       /\ ~handles[id].open
       /\ handles[id].closes = 1
       /\ handles[id].bucket \notin DOMAIN outFiles
       /\ now - handles[id].bucket > 2 * BucketSec
  /\ \E ts \in DOMAIN outFiles : now - ts = 2 * BucketSec

\* --------------------------------------------------------------------- C8
\* C8 as stated: no entry of knownTxs is older than TX_CACHE_TTL + tick_period.
C8_AgeBound ==
  \A h \in DOMAIN knownTxs : now - knownTxs[h] <= txCacheTime + TickSec

\* C8 amended: an entry that was in knownTxs at the last eviction of the housekeeper is
\* at most TX_CACHE_TTL old until the pass ends and at most TX_CACHE_TTL + tick_period
\* old until the next eviction; an entry inserted since with an older timestamp stays
\* until that eviction.
C8_AgeBoundAfterPass ==
  \A h \in (DOMAIN knownTxs) \cap hist.survived :
    /\ now - knownTxs[h] <= txCacheTime + TickSec
    /\ h_pc \in {"evictFiles", "logStats", "reset", "storeTxCnt"} =>
         now - knownTxs[h] <= txCacheTime

\* C8 witness: an entry that survived a pass has reached TX_CACHE_TTL + tick_period at
\* the next tick and is about to be evicted.
C8_Witness ==
  /\ h_pc = "evictKnown"
  /\ \E h \in (DOMAIN knownTxs) \cap hist.survived :
       now - knownTxs[h] = txCacheTime + TickSec

\* --------------------------------------------------------------------- C9
\* C9: the state right after the Reset of a housekeeper pass has no counter: Get("all"),
\* Get("first") and Get("unique") are empty, whatever the consumer is doing.
C9_ResetEmptiesCounters ==
  [][(h_pc = "reset" /\ h_pc' # "reset") =>
       /\ Get(srcCnt', "all") = EmptyMap
       /\ Get(srcCnt', "first") = EmptyMap
       /\ Get(srcCnt', "unique") = EmptyMap]_vars

\* C9 witness: the pass has just reset the counters while the consumer is in the middle
\* of an arrival that it had already counted under "all".
C9_Witness ==
  /\ h_pc = "storeTxCnt"
  /\ c_pc = "incUnique"
  /\ srcCnt = EmptyMap

\* -------------------------------------------------------------------- C10
\* The step of processTx for an arrival that the checker reports included: no change of
\* knownTxs, of the txs and sourcelog files and of the other trash files; one row
\* <ts_ms>,<hash>,<source>,tx-already-on-chain,<block> appended to the trash file of the
\* arrival's bucket, or (unless exactly) none.
IncludedStep(exactly) ==
  (c_pc = "check" /\ c_pc' = "recv") =>
    LET p == <<"trash", BucketTS(txIn.T)>> IN
    /\ knownTxs' = knownTxs
    /\ DOMAIN disk' = DOMAIN disk
    /\ \A q \in (DOMAIN disk) \ {p} : disk'[q] = disk[q]
    /\ \/ \E block \in Blocks :
            disk'[p] = Append(disk[p], <<txIn.T * 1000, txIn.hash, txIn.source,
                                         "tx-already-on-chain", block>>)
       \/ ~exactly /\ disk'[p] = disk[p]

\* C10 as stated: an arrival reported included appends exactly one trash row, no txs row,
\* and does not enter knownTxs.
C10_IncludedAppendsOneTrashRow == [][IncludedStep(TRUE)]_vars

\* C10 amended: an arrival reported included appends one trash row, or none when the
\* trash write fails; it appends no txs row and does not enter knownTxs, so that a
\* re-delivery of the hash reaches the checker again.
C10_IncludedAppendsAtMostOneTrashRow == [][IncludedStep(FALSE)]_vars

\* C10 witness: the trash write of an included arrival failed, the hash did not enter
\* knownTxs, and the re-delivery of the hash went to trash.
C10_Witness ==
  /\ Idle
  /\ Len(hist.arrivals) = 2
  /\ hist.arrivals[1].tx.hash = hist.arrivals[2].tx.hash
  /\ hist.arrivals[1].included /\ hist.arrivals[1].failed
  /\ hist.arrivals[2].included /\ hist.arrivals[2].trashed
  /\ Rows("trash", hist.arrivals[1].tx.hash) = 1
  /\ ~Has(knownTxs, hist.arrivals[1].tx.hash)

\* -------------------------------------------------------------------- C11
\* The inclusion checker with every answer it can give, failing writes and encodings
InitCheck ==
  InitWith(Env(Hashes, {"local"}, {0}, FALSE, TRUE, TRUE, ReceiptResults), {FALSE}, {TRUE})

SpecCheck == InitCheck /\ [][Next]_vars

\* processTx has returned for the i-th dequeued arrival
Finished(i) == i < Len(hist.arrivals) \/ Idle

\* The checker answered the i-th arrival with the error "not found" or another error
CheckFailed(i) == hist.arrivals[i].answer \in {"not found", "error"}

\* What an arrival does once the checker has answered with an error: it is not sent to
\* trash; it is counted as a first observation, encoded and written to txs, and it
\* ends persisted and remembered unless the encoding or the write fails.
GoesOnAsNotOnChain(i) ==
  LET a == hist.arrivals[i] IN
  /\ ~a.included /\ ~a.trashed
  /\ ~Finished(i) => c_pc \in {"txCntInc", "incFirst", "writeTx", "remember"}
  /\ (Finished(i) \/ c_pc \in {"writeTx", "remember"}) => a.counted # "no"
  /\ (Finished(i) \/ c_pc = "remember") => (a.persisted \/ a.failed)
  /\ Finished(i) => (a.persisted <=> a.remembered)
  /\ a.persisted => HasTxsRow(a.tx.hash, a.tx.T)

\* C11: an arrival whose inclusion check returns "not found" or any other error writes
\* no trash row in that step and goes on with first-observer accounting, encoding and
\* the txs write, as if the hash were not on chain.
C11_CheckErrorsNotAuthoritative ==
  /\ [](\A i \in 1..Len(hist.arrivals) : CheckFailed(i) => GoesOnAsNotOnChain(i))
  /\ [][(c_pc = "check" /\ c_pc' # "check" /\ CheckFailed(Len(hist'.arrivals)))
         => (disk' = disk /\ c_pc' = "txCntInc" /\ knownTxs' = knownTxs)]_vars

\* C11 witness: the checker answered one arrival with an error and another with "not
\* found"; both are in txs and in knownTxs and nothing is in trash.
C11_Witness ==
  /\ Idle
  /\ Len(hist.arrivals) = 2
  /\ hist.arrivals[1].answer = "error"
  /\ hist.arrivals[2].answer = "not found"
  /\ \A i \in 1..2 : /\ hist.arrivals[i].persisted /\ hist.arrivals[i].remembered
                     /\ Has(knownTxs, hist.arrivals[i].tx.hash)
                     /\ Rows("trash", hist.arrivals[i].tx.hash) = 0
                     /\ Rows("transactions", hist.arrivals[i].tx.hash) = 1

\* ------------------------------------------------ locks, one step per Lock and Unlock
\* The consumer and the housekeeper with their critical sections cut in three steps:
\* Lock, the access, Unlock.  An element <<g, l, mode, pc>> of locks says that goroutine
\* g holds lock l ("w": Lock, "r": RLock), taken for the statement at position pc.
Goroutines == {"consumer", "housekeeper"}

Pc(g) == IF g = "consumer" THEN c_pc ELSE h_pc

NoLock == <<>>

\* The lock that the statement at the goroutine's position takes, and how:
\* processTx and getOutputCSVFiles; cleanupBackgroundTask; SourceMetrics (one Mutex)
Needs(g) ==
  IF g = "consumer"
    THEN CASE c_pc \in {"incAll", "incUnique", "incFirst"} -> <<"srcCnt", "w">>
           [] c_pc = "getFiles" -> <<"outFiles", "r">>
           [] c_pc = "storeFiles" -> <<"outFiles", "w">>
           [] c_pc = "probeKnown" -> <<"knownTxs", "r">>
           [] c_pc = "remember" -> <<"knownTxs", "w">>
           [] OTHER -> NoLock
    ELSE CASE h_pc = "evictKnown" -> <<"knownTxs", "w">>
           [] h_pc = "evictFiles" -> <<"outFiles", "w">>
           [] h_pc \in {"getAll", "getFirst", "getUnique", "reset"} -> <<"srcCnt", "w">>
           [] OTHER -> NoLock

Holds(g) == {x \in locks : x[1] = g}

\* The locks g took for a statement it has left: their Unlock comes next
ToUnlock(g) == {x \in Holds(g) : x[4] # Pc(g)}

\* g is at a statement that takes a lock and has not taken it
Wants(g) == Needs(g) # NoLock /\ ToUnlock(g) = {} /\ Holds(g) = {}

\* sync.RWMutex: Lock waits for every holder, RLock for a writer; a sync.Mutex has "w" only
CanLock(l, mode) ==
  \A x \in locks : x[2] = l => (mode = "r" /\ x[3] = "r")

\* g is blocked in Lock or RLock
Waiting(g) == Wants(g) /\ ~CanLock(Needs(g)[1], Needs(g)[2])

\* Lock / RLock returns
Lock(g) ==
  /\ Wants(g)
  /\ CanLock(Needs(g)[1], Needs(g)[2])
  /\ locks' = locks \cup {<<g, Needs(g)[1], Needs(g)[2], Pc(g)>>}
  /\ UNCHANGED <<env, closed, now, submitted, txC, writeSourcelog, ethClient, outFiles,
                 knownTxs, txCnt, srcCnt, handles, disk, c_pc, txIn, c_files, h_pc, hist>>

\* An Unlock that leaves the lock held
ReleasedNothing(ls, g) == ls

\* The locks after g's Unlock / RUnlock (also the deferred one of SourceMetrics)
Released(ls, g) == ls \ {x \in ls : x[1] = g /\ x[4] # Pc(g)}

Unlock(g) ==
  /\ ToUnlock(g) # {}
  /\ locks' = Released(locks, g)
  /\ UNCHANGED <<env, closed, now, submitted, txC, writeSourcelog, ethClient, outFiles,
                 knownTxs, txCnt, srcCnt, handles, disk, c_pc, txIn, c_files, h_pc, hist>>

\* g may run the statement at its position: it has unlocked what it had to, and holds
\* the lock of the statement if the statement takes one
Ready(g) ==
  /\ ToUnlock(g) = {}
  /\ IF Needs(g) = NoLock THEN Holds(g) = {}
                          ELSE Holds(g) = {<<g, Needs(g)[1], Needs(g)[2], Pc(g)>>}

\* The positions of the housekeeper for a counter type: the call of Get, the range loop
\* over the mapping that Get returned, and what follows the loop
GetPc(cntType) ==
  CASE cntType = KeyStatsAll -> "getAll"
    [] cntType = KeyStatsFirst -> "getFirst"
    [] cntType = KeyStatsUnique -> "getUnique"

RangePc(cntType) ==
  CASE cntType = KeyStatsAll -> "rangeAll"
    [] cntType = KeyStatsFirst -> "rangeFirst"
    [] cntType = KeyStatsUnique -> "rangeUnique"

AfterRange(cntType) ==
  CASE cntType = KeyStatsAll -> "getFirst"
    [] cntType = KeyStatsFirst -> "getUnique"
    [] cntType = KeyStatsUnique -> "reset"

CntTypes == {KeyStatsAll, KeyStatsFirst, KeyStatsUnique}

\* runtime.ReadMemStats and p.log.Infow("stats", ...): only reads, only logged
ReadStats ==
  /\ Ready("housekeeper")
  /\ h_pc = "logStats"
  /\ h_pc' = "getAll"
  /\ UNCHANGED <<env, locks, closed, now, submitted, txC, writeSourcelog, ethClient, outFiles,
                 knownTxs, txCnt, srcCnt, handles, disk, c_pc, txIn, c_files, hist>>

\* p.srcCnt.Get(cntType) under the lock: returns sc.counts[cntType] itself, not a copy;
\* a nil mapping makes the range loop that follows empty
GetCounts ==
  /\ Ready("housekeeper")
  /\ \E cntType \in CntTypes :
       /\ h_pc = GetPc(cntType)
       /\ h_pc' = IF Has(srcCnt, cntType) THEN RangePc(cntType) ELSE AfterRange(cntType)
  /\ UNCHANGED <<env, locks, closed, now, submitted, txC, writeSourcelog, ethClient, outFiles,
                 knownTxs, txCnt, srcCnt, handles, disk, c_pc, txIn, c_files, hist>>

\* for k, v := range <the mapping Get returned> { ... v[cntType] or len(v) ... }: the
\* loop runs without the lock and ends here
RangeCounts ==
  /\ Ready("housekeeper")
  /\ \E cntType \in CntTypes :
       /\ h_pc = RangePc(cntType)
       /\ h_pc' = AfterRange(cntType)
  /\ UNCHANGED <<env, locks, closed, now, submitted, txC, writeSourcelog, ethClient, outFiles,
                 knownTxs, txCnt, srcCnt, handles, disk, c_pc, txIn, c_files, hist>>

\* The counter type whose mapping the consumer writes at its position
Writes(pc) ==
  CASE pc = "incAll" -> KeyStatsAll
    [] pc = "incFirst" -> KeyStatsFirst
    [] pc = "incUnique" -> KeyStatsUnique
    [] OTHER -> Nil

\* The housekeeper is in the range loop over sc.counts[cntType]
Ranging(cntType) == h_pc = RangePc(cntType)

\* The consumer is inside Inc / IncKey, writing sc.counts[cntType] under the lock
Writing(cntType) == Writes(c_pc) = cntType /\ Ready("consumer")

\* A map that is written while it is read: the Go runtime may throw "concurrent map
\* iteration and map write" (or "read and map write"), which ends the process
Fatal ==
  /\ \E cntType \in CntTypes : Ranging(cntType) /\ Writing(cntType)
  /\ c_pc' = "fatal"
  /\ h_pc' = "fatal"
  /\ locks' = {}
  /\ UNCHANGED <<env, closed, now, submitted, txC, writeSourcelog, ethClient, outFiles,
                 knownTxs, txCnt, srcCnt, handles, disk, txIn, c_files, hist>>

ConsumerConc ==
  \/ Ready("consumer") /\ Recv
  \/ Ready("consumer") /\ IncAll
  \/ Ready("consumer") /\ IncUnique
  \/ Ready("consumer") /\ GetFilesProbe
  \/ Ready("consumer") /\ OpenFiles
  \/ Ready("consumer") /\ StoreFiles
  \/ Ready("consumer") /\ Sourcelog
  \/ Ready("consumer") /\ ProbeKnown
  \/ Ready("consumer") /\ Check
  \/ Ready("consumer") /\ TxCntInc
  \/ Ready("consumer") /\ IncFirst
  \/ Ready("consumer") /\ WriteTx
  \/ Ready("consumer") /\ Remember

HousekeeperConc ==
  \/ Ready("housekeeper") /\ Tick
  \/ Ready("housekeeper") /\ EvictKnown
  \/ Ready("housekeeper") /\ EvictFiles
  \/ Ready("housekeeper") /\ ResetCounters
  \/ Ready("housekeeper") /\ StoreTxCnt
  \/ ReadStats
  \/ GetCounts
  \/ RangeCounts

NextConc ==
  \/ Submit \/ ConsumerConc \/ HousekeeperConc
  \/ \E g \in Goroutines : Lock(g)
  \/ \E g \in Goroutines : Unlock(g)
  \/ Fatal

\* One hash from one source, no I/O failure, the checker configured
InitConc ==
  InitWith(Env({"0xaa"}, {"local"}, {0}, FALSE, FALSE, FALSE, {"included", "not found"}),
           {FALSE}, {TRUE})

SpecConc == InitConc /\ [][NextConc]_vars

\* ---------------------------------------------------------------- C12
\* g has a statement to run: the consumer is not waiting on the empty channel, the
\* housekeeper is not asleep, and the process has not ended
HasWork(g) ==
  IF g = "consumer" THEN c_pc # "fatal" /\ ~(c_pc = "recv" /\ txC = <<>>)
                    ELSE h_pc \notin {"fatal", "sleep"}

\* g can take a step that changes the state
CanStep(g) ==
  IF g = "consumer"
    THEN ENABLED <<ConsumerConc \/ Lock("consumer") \/ Unlock("consumer")>>_vars
    ELSE ENABLED <<HousekeeperConc \/ Lock("housekeeper") \/ Unlock("housekeeper")>>_vars

\* C12: no goroutine ever holds more than one of the three locks, and a goroutine that
\* has work can step, or waits for a lock whose holder is another goroutine that can
\* step (so that no reachable state is a deadlock while the channel is open).
C12_DeadlockFree ==
  \A g \in Goroutines :
    /\ Cardinality(Holds(g)) <= 1
    /\ (~closed /\ HasWork(g)) =>
         \/ CanStep(g)
         \/ /\ Waiting(g)
            /\ \E x \in locks : x[2] = Needs(g)[1] /\ x[1] # g /\ CanStep(x[1])

\* The consumer, about to remember a hash, waits for knownTxsLock, which the
\* housekeeper holds for its eviction
C12_Witness ==
  /\ Waiting("consumer")
  /\ c_pc = "remember"
  /\ \E x \in Holds("housekeeper") : x[2] = "knownTxs"
  /\ CanStep("housekeeper")

\* ---------------------------------------------------------------- C13
\* C13: no goroutine reads a counter mapping, the one returned by Get included, while
\* another goroutine writes that same mapping: the housekeeper is never in its range
\* loop over sc.counts[cntType] while the consumer is inside Inc / IncKey on it.
C13_NoReadWhileWritten ==
  \A cntType \in CntTypes : ~(Ranging(cntType) /\ Writing(cntType))

\* ------------------------------------------------ the channel at its capacity
\* A send with the channel's capacity as the only limit of the queue
Send == SubmitWithin(TxChanCap, TxChanCap + MaxArrivals)

\* The first minute of a run: the housekeeper is in its first time.Sleep(time.Minute)
NextQueue == Send \/ Consumer

\* The i-th TxIn of a burst that the adapters of both sources sent at the start
BurstTx(i) ==
  [hash |-> IF i % 2 = 0 THEN "0xaa" ELSE "0xbb",
   source |-> IF i % 3 = 0 THEN "local" ELSE "blx",
   T |-> StartNow]

\* The adapters filled the channel before the consumer was first scheduled
InitQueue ==
  InitFrom(Env(Hashes, Sources, {0}, FALSE, FALSE, FALSE, {"not found"}), {FALSE}, {TRUE},
           [i \in 1..TxChanCap |-> BurstTx(i)])

SpecQueue == InitQueue /\ [][NextQueue]_vars

\* ---------------------------------------------------------------- C14
\* The TxIn values that the consumer received, in the order of their processing
Received == [i \in 1..Len(hist.arrivals) |-> hist.arrivals[i].tx]

\* The subsequence of the TxIn values of one source
OfSource(q, s) == SelectSeq(q, LAMBDA t : t.source = s)

\* C14: the channel never holds more than 100 values; a send does not happen while it
\* is full and a queued value leaves only by the consumer's receive; what was received
\* followed by what is queued is exactly what was sent (every submitted TxIn is received
\* once, none dropped), so that the arrivals of a source are processed in its order.
C14_FanInQueue ==
  /\ [](/\ Len(txC) <= TxChanCap
        /\ Received \o txC = hist.sent
        /\ \A s \in Sources : OfSource(Received, s) \o OfSource(txC, s) = OfSource(hist.sent, s))
  /\ [][/\ Len(txC) = TxChanCap => hist'.sent = hist.sent
        /\ txC' # txC => \/ hist'.sent # hist.sent /\ Len(txC') = Len(txC) + 1
                         \/ c_pc = "recv" /\ txIn' = Head(txC) /\ txC' = Tail(txC)]_vars

\* The channel was full, the senders waited, and everything sent, the burst and the
\* sends that had to wait, has been processed
C14_Witness ==
  /\ Len(hist.sent) = TxChanCap + MaxArrivals
  /\ txC = <<>>
  /\ Idle
  /\ Len(hist.arrivals) = TxChanCap + MaxArrivals

\* ------------------------------------------------------------ shutdown
\* The input channel is closed (by whoever owns the adapters; after it no adapter sends)
CloseChan ==
  /\ ~closed
  /\ closed' = TRUE
  /\ UNCHANGED <<env, locks, now, submitted, txC, writeSourcelog, ethClient, outFiles, knownTxs,
                 txCnt, srcCnt, handles, disk, c_pc, txIn, c_files, h_pc, hist>>

\* Start: the range loop over p.txC ends once the channel is closed and empty, and
\* Start returns
Done ==
  /\ c_pc = "recv"
  /\ txC = <<>>
  /\ closed
  /\ c_pc' = "done"
  /\ UNCHANGED <<env, locks, closed, now, submitted, txC, writeSourcelog, ethClient, outFiles,
                 knownTxs, txCnt, srcCnt, handles, disk, txIn, c_files, h_pc, hist>>

NextShutdown == Next \/ CloseChan \/ Done

\* The checker configured, with a node that answers or does not
InitShutdown ==
  InitWith(Env({"0xaa"}, {"local"}, {0}, FALSE, FALSE, FALSE,
               {"included", "not found", NoAnswer}), {FALSE}, {TRUE})

\* The consumer goroutine is scheduled fairly (each of its steps changes its position)
SpecShutdown == InitShutdown /\ [][NextShutdown]_vars /\ WF_c_pc(Consumer \/ Done)

\* The same with a node that always answers
InitShutdownAnswered ==
  InitWith(Env({"0xaa"}, {"local"}, {0}, FALSE, FALSE, FALSE,
               {"included", "not found"}), {FALSE}, {TRUE})

SpecShutdownAnswered ==
  InitShutdownAnswered /\ [][NextShutdown]_vars /\ WF_c_pc(Consumer \/ Done)

\* ---------------------------------------------------------------- C15
\* C15: once the input channel is closed, the consumer processes what is still queued
\* and then its receive loop ends.
C15_ShutdownTerminates == closed ~> (c_pc = "done" /\ txC = <<>>)

\* ------------------------------------------------------------ accounting
\* Both hashes from both sources, failing encodings and txs writes, the checker
\* configured
InitAccounting ==
  InitWith(Env(Hashes, Sources, {0}, FALSE, TRUE, TRUE, {"included", "not found"}),
           {FALSE}, {TRUE})

SpecAccounting == InitAccounting /\ [][Next]_vars

\* ---------------------------------------------------------------- C16
\* The `first` counter of a source: counts["first"][source]["first"]
FirstOf(s) == GetOr(GetOr(Get(srcCnt, KeyStatsFirst), s, EmptyMap), KeyStatsFirst, 0)

RECURSIVE SumFirst(_)
SumFirst(ss) ==
  IF ss = {} THEN 0 ELSE LET s == CHOOSE x \in ss : TRUE IN FirstOf(s) + SumFirst(ss \ {s})

\* The rows of all txs files
TxsRows == Cardinality(RowIds("transactions"))

\* The arrivals of a source whose txs row was written
PersistedFrom(s) ==
  {i \in 1..Len(hist.arrivals) : hist.arrivals[i].tx.source = s /\ hist.arrivals[i].persisted}

\* The arrivals of a source counted as first observations since the last Reset
CountedFrom(s) ==
  {i \in 1..Len(hist.arrivals) : hist.arrivals[i].tx.source = s /\ hist.arrivals[i].counted = "now"}

\* C16 as stated, before the first reset and with the consumer idle: the `first`
\* counter of a source is the number of its arrivals that were persisted to txs, and
\* the sum of `first` and the tx counter equal the number of rows of the txs files.
C16_FirstEqualsPersisted ==
  (Idle /\ now = StartNow) =>
    /\ \A s \in Sources : FirstOf(s) = Cardinality(PersistedFrom(s))
    /\ SumFirst(Sources) = TxsRows
    /\ txCnt = TxsRows

\* C16 amended: the `first` counter of a source is the number of its arrivals since the
\* last Reset that passed the dedup and inclusion probes (counted before the encoding
\* and the txs write); every persisted arrival was counted, a counted arrival of a
\* finished processTx was either persisted or hit a failure, and the tx counter, which
\* is zeroed in a step of its own after the Reset, exceeds the sum of `first` only by
\* the arrival that is between the two increments or between the Reset and the zeroing.
C16_FirstCountsAttempts ==
  /\ \A s \in Sources : FirstOf(s) = Cardinality(CountedFrom(s))
  /\ \A i \in 1..Len(hist.arrivals) :
       LET a == hist.arrivals[i] IN
       /\ a.persisted => a.counted # "no"
       /\ (a.counted # "no" /\ Finished(i)) => (a.persisted # a.failed)
  /\ h_pc # "storeTxCnt" =>
       txCnt <= SumFirst(Sources) + (IF c_pc = "incFirst" THEN 1 ELSE 0)
  /\ TxsRows <= Cardinality({i \in 1..Len(hist.arrivals) : hist.arrivals[i].counted # "no"})

\* One hash delivered by two sources: the first arrival was counted and its txs write
\* failed, the second was counted and persisted, so the hash is a first observation
\* of both sources with one row
C16_Witness ==
  /\ Idle
  /\ Len(hist.arrivals) = 2
  /\ hist.arrivals[1].tx.hash = hist.arrivals[2].tx.hash
  /\ hist.arrivals[1].tx.source # hist.arrivals[2].tx.source
  /\ hist.arrivals[1].counted = "now" /\ hist.arrivals[1].failed
  /\ hist.arrivals[2].counted = "now" /\ hist.arrivals[2].persisted
  /\ \A s \in Sources : FirstOf(s) = 1
  /\ TxsRows = 1

\* ------------------------------------------------- timestamps before the epoch
\* Timestamps in the current bucket and, for an adapter whose clock or source reports
\* a time before 1970, one second and one bucket before the epoch; sourcelog on
InitBucket ==
  InitWith(Env({"0xaa"}, {"local"}, {0, StartNow + 1, StartNow + BucketSec}, FALSE, FALSE, FALSE,
               {"included", "not found"}), {TRUE}, {TRUE})

SpecBucket == InitBucket /\ [][Next]_vars

\* floor(a / b) for b > 0
FloorDiv(a, b) == a \div b

SecPerDay == 86400

\* time.Unix(t, 0).UTC(): the day (counted from 1970-01-01), hour and minute of a unix
\* time, as Format prints them
Day(t) == FloorDiv(t, SecPerDay)

Hour(t) == (t - Day(t) * SecPerDay) \div 3600

Minute(t) == ((t - Day(t) * SecPerDay) % 3600) \div 60

\* getFilename(prefix, timestamp): "<prefix>_<2006-01-02_15-04>_<uid>.csv"
GetFilename(prefix, timestamp) == <<prefix, Day(timestamp), Hour(timestamp), Minute(timestamp)>>

\* filepath.Join(p.outDir, t.Format(time.DateOnly), <category>)
Dir(cat, bucketTS) == <<Day(bucketTS), cat>>

\* The name of the file that getOutputCSVFiles opens for a category and a bucket
FileName(cat, bucketTS) == <<Dir(cat, bucketTS), GetFilename(cat, bucketTS)>>

\* The rows on the disk, as <<category, timestamp in seconds, name of the file>>
RowsOnDisk ==
  UNION {{<<p[1], disk[p][k][1] \div 1000, FileName(p[1], p[2])>> : k \in 1..Len(disk[p])} :
           p \in DOMAIN disk}

\* ---------------------------------------------------------------- C17
\* C17: the bucket key of an arrival is floor(ts / BUCKET_SECONDS) * BUCKET_SECONDS, and
\* two rows of a category whose timestamps have the same floor(ts / BUCKET_SECONDS) are
\* in files of the same name.
C17_SameFloorSameFile ==
  /\ c_pc \in {"openFiles", "storeFiles", "sourcelog"} =>
       BucketTS(txIn.T) = FloorDiv(txIn.T, BucketSec) * BucketSec
  /\ \A r1 \in RowsOnDisk, r2 \in RowsOnDisk :
       (r1[1] = r2[1] /\ FloorDiv(r1[2], BucketSec) = FloorDiv(r2[2], BucketSec))
         => r1[3] = r2[3]

\* ---------------------------------------------------------------- C18
\* C18: every row is in the directory of the UTC day of its own timestamp: the bucket
\* start never lies in another UTC day than the timestamp.
C18_DirectoryIsDayOfTimestamp ==
  /\ c_pc \in {"openFiles", "storeFiles", "sourcelog"} => Day(BucketTS(txIn.T)) = Day(txIn.T)
  /\ \A r \in RowsOnDisk : r[3][1][1] = Day(r[2])

\* ---------------------------------------------------------------- C19
\* The hashes whose entry leaves knownTxs in the step
Evicted == (DOMAIN knownTxs) \ (DOMAIN knownTxs')

\* The step appends the txs row of the arrival in hand
PersistStep == c_pc = "writeTx" /\ c_pc' = "remember"

\* C19 as stated: an entry leaves knownTxs only when more than TX_CACHE_TTL has elapsed
\* since it was inserted, and a hash that was inserted is not persisted again within
\* TX_CACHE_TTL of its insertion.
C19_EvictedAfterTTLSinceInsertion ==
  [][/\ \A h \in Evicted : now - hist.insertedAt[h] > txCacheTime
     /\ (PersistStep /\ hist.insertedAt[txIn.hash] >= 0)
          => now - hist.insertedAt[txIn.hash] > txCacheTime]_vars

\* C19 amended: the age of an entry is measured from the timestamp the adapter put on
\* the arrival, which is what knownTxs stores: the eviction step deletes exactly the
\* entries with now - timestamp > TX_CACHE_TTL and no other step deletes one; a hash is
\* persisted only while it has no entry, so a second time only after such an eviction.
C19_EvictedAfterTTLSinceTimestamp ==
  [][/\ \A h \in Evicted : h_pc = "evictKnown" /\ now - knownTxs[h] > txCacheTime
     /\ (h_pc = "evictKnown" /\ h_pc' # h_pc) =>
          \A h \in (DOMAIN knownTxs) \ Evicted : now - knownTxs[h] <= txCacheTime
     /\ PersistStep =>
          /\ ~Has(knownTxs, txIn.hash)
          /\ hist.insertedAt[txIn.hash] >= 0 => hist.evicted[txIn.hash] > 0]_vars

\* A hash was remembered with a timestamp TX_CACHE_TTL old, evicted at the next pass
\* and persisted a second time, all within TX_CACHE_TTL of its first insertion
C19_Witness ==
  /\ Len(hist.arrivals) = 2
  /\ hist.arrivals[1].tx.hash = hist.arrivals[2].tx.hash
  /\ hist.arrivals[1].remembered /\ hist.arrivals[1].tx.T = StartNow - txCacheTime
  /\ hist.arrivals[2].persisted
  /\ hist.evicted[hist.arrivals[1].tx.hash] = 1
  /\ now - StartNow <= txCacheTime

\* ---------------------------------------------------------------- C20
\* C20: the consumer never writes to a handle that the housekeeper has closed: when it
\* is about to append the sourcelog row or the txs row, the handle of the triple it got
\* from getOutputCSVFiles is open.
C20_NoWriteToClosedHandle ==
  /\ (c_pc = "sourcelog" /\ writeSourcelog) => handles[c_files.FSourcelog].open
  /\ c_pc = "writeTx" => handles[c_files.FTxs].open

\* ---------------------------------------------------------------- C21
\* The shared maps that the statement at the goroutine's position reads or writes:
\* the probe and the insertion of processTx and getOutputCSVFiles, the evictions of
\* cleanupBackgroundTask, and len(p.knownTxs), len(p.outFiles) of its "stats" record
Accesses(g) ==
  IF g = "consumer"
    THEN CASE c_pc \in {"probeKnown", "remember"} -> {"knownTxs"}
           [] c_pc \in {"getFiles", "storeFiles"} -> {"outFiles"}
           [] OTHER -> {}
    ELSE CASE h_pc = "evictKnown" -> {"knownTxs"}
           [] h_pc = "evictFiles" -> {"outFiles"}
           [] h_pc = "logStats" -> {"knownTxs", "outFiles"}
           [] OTHER -> {}

\* g is inside the insertion into the map (it holds the map's lock for writing)
Inserting(g, mp) ==
  /\ g = "consumer"
  /\ c_pc \in {"remember", "storeFiles"}
  /\ mp \in Accesses(g)
  /\ Ready(g)

\* C21: a goroutine that runs a statement reading or writing knownTxs or outFiles holds
\* the lock of that map, and the housekeeper never reads the size of a map while the
\* consumer is inserting into it.
C21_LockDiscipline ==
  \A g \in Goroutines : \A mp \in Accesses(g) :
    Ready(g) =>
      /\ \E x \in Holds(g) : x[2] = mp
      /\ \A o \in Goroutines \ {g} : Inserting(o, mp) => \E x \in Holds(g) : x[2] = mp

\* ------------------------------------------------------- the stats records
\* The `all` counter of a source: counts["all"][source]["all"]
AllOf(s) == GetOr(GetOr(Get(srcCnt, KeyStatsAll), s, EmptyMap), KeyStatsAll, 0)

\* The "stats" record with tx_per_min = p.txCnt.Load() and the source_stats_all record
\* with v["all"] of every source of Get("all"): hist.reported sums what the records of
\* all passes carried
Report ==
  /\ h_pc = "logStats"
  /\ h_pc' = "reset"
  /\ hist' = [hist EXCEPT !.reported =
                [all |-> [s \in DOMAIN @.all |-> @.all[s] + AllOf(s)], tx |-> @.tx + txCnt]]
  /\ UNCHANGED <<env, locks, closed, now, submitted, txC, writeSourcelog, ethClient, outFiles,
                 knownTxs, txCnt, srcCnt, handles, disk, c_pc, txIn, c_files>>

NextStats ==
  \/ Submit \/ Consumer
  \/ Tick \/ EvictKnown \/ EvictFiles \/ Report \/ ResetCounters \/ StoreTxCnt

\* One hash from both sources, no I/O failure, the checker configured
InitStats ==
  InitWith(Env({"0xaa"}, Sources, {0}, FALSE, FALSE, FALSE, {"included", "not found"}),
           {FALSE}, {TRUE})

SpecStats == InitStats /\ [][NextStats]_vars

\* ---------------------------------------------------------------- C22
\* The arrivals of a source for which Inc("all", source) has run
AllDone(s) ==
  {i \in 1..Len(hist.arrivals) :
     /\ hist.arrivals[i].tx.source = s
     /\ (i < Len(hist.arrivals) \/ c_pc # "incAll")}

\* The arrivals for which p.txCnt.Inc() has run
TxCntDone ==
  {i \in 1..Len(hist.arrivals) :
     \/ hist.arrivals[i].counted # "no"
     \/ i = Len(hist.arrivals) /\ c_pc = "incFirst"}

\* C22 as stated, whenever the consumer is idle and the housekeeper asleep: what the
\* stats records reported plus what the counters still hold is, for every source, the
\* number of its processed arrivals and, for the tx counter, the number of first
\* observations: no increment was discarded.
C22_NoLostCounts ==
  (Idle /\ h_pc = "sleep") =>
    /\ \A s \in env.sources : hist.reported.all[s] + AllOf(s) = Cardinality(AllDone(s))
    /\ hist.reported.tx + txCnt = Cardinality(TxCntDone)

\* C22 amended: an increment is reported at most once: what the records reported never
\* exceeds the increments made, and neither does it together with what the counters
\* hold once the pass has reset them; an increment made between the housekeeper's read
\* and its reset is in no record.
C22_CountsReportedAtMostOnce ==
  /\ \A s \in env.sources :
       /\ hist.reported.all[s] <= Cardinality(AllDone(s))
       /\ h_pc # "reset" => hist.reported.all[s] + AllOf(s) <= Cardinality(AllDone(s))
  /\ hist.reported.tx <= Cardinality(TxCntDone)
  /\ h_pc \notin {"reset", "storeTxCnt"} => hist.reported.tx + txCnt <= Cardinality(TxCntDone)

\* One arrival was reported, another was counted between the read and the reset of a
\* pass and is in no record and in no counter
C22_Witness ==
  /\ Idle /\ h_pc = "sleep"
  /\ \E s \in env.sources :
       /\ hist.reported.all[s] = 1
       /\ AllOf(s) = 0
       /\ Cardinality(AllDone(s)) = 2

\* ---------------------------------------------------------------- C23
\* The number of distinct keys under `unique` for a source: len(counts["unique"][source])
UniqueOf(s) == MapLen(GetOr(Get(srcCnt, KeyStatsUnique), s, EmptyMap))

\* Every source in every counter mapping
CountedSources == UNION {DOMAIN srcCnt[cntType] : cntType \in DOMAIN srcCnt}

====
